---- MODULE Spec2Model ----
(***************************************************************************)
(* Server-side view rendering bridge (framework/view/viewrt/viewrt.go).    *)
(*                                                                         *)
(* One server is constructed, either by Proxy (live) or by Static.  Every  *)
(* request is one run of a handler: the asset middleware or the terminal   *)
(* route handler.  A handler is modelled by the sequence of calls it makes *)
(* on its collaborators (asset source, script engine, logger, response     *)
(* writer, downstream handler), in program order, together with the        *)
(* response writer it leaves behind.  The handlers share no mutable state, *)
(* so requests are served one after another.                               *)
(*                                                                         *)
(* Strings the code inspects are sequences of tokens: a request path is a  *)
(* sequence of "/" separators, names and extensions; a route is a sequence *)
(* of characters.                                                          *)
(***************************************************************************)
EXTENDS Integers, Sequences, FiniteSets, TLC

VARIABLES
  mode,         \* which constructor built the server: "live" (Proxy) or "static" (Static)
  bundle,       \* asset source: state of the file bud/view/_ssr.js
  served,       \* number of requests handled so far
  openHandles,  \* asset source: handles opened and not yet closed
  calls,        \* number of renderer.Render calls made so far
  reads,        \* asset source: number of reads of the SSR bundle
  passed,       \* number of Render calls that got past serialization and the bundle read
  evalLog,      \* script engine: the bundle source of every Eval so far, in order
  req,          \* the request handled last
  resp          \* what its handler did: calls made (ev) and response writer left (w)

vars == <<mode, bundle, served, openHandles, calls, reads, passed, evalLog, req, resp>>

----------------------------------------------------------------------------
(* Bounds *)

MaxRequests == 3

----------------------------------------------------------------------------
(* strings *)

HasPrefix(s, p) == Len(s) >= Len(p) /\ SubSeq(s, 1, Len(p)) = p

HasSuffix(s, p) == Len(s) >= Len(p) /\ SubSeq(s, Len(s) - Len(p) + 1, Len(s)) = p

TrimPrefix(s, p) == IF HasPrefix(s, p) THEN SubSeq(s, Len(p) + 1, Len(s)) ELSE s

----------------------------------------------------------------------------
(* errors *)

NoErr == [is |-> "nil", msg |-> ""]

ErrNotExist == [is |-> "fs.ErrNotExist", msg |-> "file does not exist"]

ErrPermission == [is |-> "fs.ErrPermission", msg |-> "permission denied"]

ErrIO == [is |-> "io", msg |-> "input/output error"]

ErrEval == [is |-> "js", msg |-> "ReferenceError: bud is not defined"]

ErrMarshal == [is |-> "json.UnsupportedTypeError", msg |-> "json: unsupported type: chan int"]

ErrSyntax == [is |-> "json.SyntaxError", msg |-> "unexpected end of JSON input"]

\* fmt.Errorf("view: invalid status code %d", res.Status)
ErrStatus(status) == [is |-> "fmt", msg |-> "view: invalid status code " \o ToString(status)]

\* variant: the error compared with the sentinel itself, which a wrapped
\* error never equals
IsNotExistUnwrapped(err) == err = [is |-> "fs.ErrNotExist", msg |-> "fs.ErrNotExist"]

\* errors.Is(err, fs.ErrNotExist)
IsNotExist(err) == err.is = "fs.ErrNotExist"

----------------------------------------------------------------------------
(* http.Header and http.ResponseWriter *)

HeaderKeys == {"Content-Type", "X-Content-Type-Options", "Location"}

\* textproto.CanonicalMIMEHeaderKey, applied by Header.Set, Add and Get
Canon(key) ==
  CASE key = "content-type" -> "Content-Type"
    [] key = "location" -> "Location"
    [] OTHER -> key

NoHeader == [k \in HeaderKeys |-> <<>>]

HeaderSet(h, key, value) == [h EXCEPT ![Canon(key)] = <<value>>]

HeaderAdd(h, key, value) == [h EXCEPT ![Canon(key)] = Append(@, value)]

\* Header.Get: the first value, "" when there is none
HeaderGet(h, key) == IF h[Canon(key)] = <<>> THEN "" ELSE Head(h[Canon(key)])

\* one call made by a handler; val holds a path, a value or a body
Ev(op, key, val, code) == [op |-> op, key |-> key, val |-> val, code |-> code]

\* the handler's context: the response writer and the calls made so far
NewCtx(h0) ==
  [w |-> [header |-> h0, status |-> 0, body |-> <<>>], ev |-> <<>>,
   ret |-> [res |-> [Status |-> 0, Headers |-> [k \in {"Content-Type", "content-type", "Location"} |-> <<>>], Body |-> ""],
            err |-> [is |-> "nil", msg |-> ""]]]

Do(c, e) == [c EXCEPT !.ev = Append(@, e)]

\* w.Header().Set(key, value)
WSet(c, key, value) ==
  Do([c EXCEPT !.w.header = HeaderSet(@, key, value)], Ev("Set", key, <<value>>, 0))

\* w.Header().Add(key, value)
WAdd(c, key, value) ==
  Do([c EXCEPT !.w.header = HeaderAdd(@, key, value)], Ev("Add", key, <<value>>, 0))

\* w.WriteHeader(code): only the first call takes effect
WriteHeader(c, code) ==
  Do([c EXCEPT !.w.status = IF @ = 0 THEN code ELSE @], Ev("WriteHeader", "", <<>>, code))

\* w.Write(body): an implicit WriteHeader(200) when no status was written
Write(c, body) ==
  Do([c EXCEPT !.w.status = IF @ = 0 THEN 200 ELSE @, !.w.body = @ \o body],
     Ev("Write", "", body, 0))

\* http.Error: plain-text headers, the status, then the message and a newline
HttpError(c, err, code) ==
  Write(WriteHeader(WSet(WSet(c, "Content-Type", "text/plain; charset=utf-8"),
                         "X-Content-Type-Options", "nosniff"), code),
        <<err.msg, "\n">>)

\* variant: the entry is logged without the error
LogErrorBare(c, msg, err) == Do(c, Ev("Log", msg, <<>>, 0))

\* s.log.Error(msg, "error", err)
LogError(c, msg, err) == Do(c, Ev("Log", msg, <<err.msg>>, 0))

\* next.ServeHTTP(w, r): the downstream handler gets the writer as it is now
NextServeHTTP(c, path) == Do(c, Ev("Next", "", path, c.w.status))

----------------------------------------------------------------------------
(* client assets *)

NodeModulesPrefix == <<"/", "bud", "/", "node_modules", "/">>

ViewPrefix == <<"/", "bud", "/", "view", "/">>

SvelteSuffix == <<".svelte">>

Paths ==
  { <<"/", "bud", "/", "node_modules", "/", "livebud", "/", "runtime">>,
    <<"/", "bud", "/", "view", "/", "index", ".svelte">>,
    <<"/", "bud", "/", "view", "/", "_index", ".js">>,
    <<"/", "bud", "/", "node_modules">>,
    <<"/", "about", ".svelte">> }

\* headers the response may carry when the middleware is entered
InitialHeaders == { NoHeader, HeaderSet(NoHeader, "Content-Type", "text/html") }

\* what the asset source answers to Open and, when Open succeeds, to Stat
AssetResults ==
  { [open |-> ErrNotExist, stat |-> NoErr], [open |-> ErrPermission, stat |-> NoErr],
    [open |-> NoErr, stat |-> ErrNotExist], [open |-> NoErr, stat |-> ErrIO],
    [open |-> NoErr, stat |-> NoErr] }

AssetBytes == <<"<asset bytes>">>

\* variant: the view prefix is forgotten
isClientNodeModulesOnly(path) == HasPrefix(path, NodeModulesPrefix)

isClient(path) == HasPrefix(path, NodeModulesPrefix) \/ HasPrefix(path, ViewPrefix)

\* http.FS(fsys).Open(name): a leading slash is dropped before the name
\* reaches the asset source
Open(c, name, openRes) == Do(c, Ev("Open", openRes.is, TrimPrefix(name, <<"/">>), 0))

Stat(c, statRes) == Do(c, Ev("Stat", statRes.is, <<>>, 0))

Close(c) == Do(c, Ev("Close", "", <<>>, 0))

\* the type http.ServeContent derives from the name's extension or, failing
\* that, from the content
SniffType(path) ==
  IF HasSuffix(path, <<".js">>) THEN "text/javascript; charset=utf-8"
  ELSE "text/plain; charset=utf-8"

\* http.ServeContent for an unconditional GET: keeps a Content-Type that is
\* already set, then writes 200 and the content
ServeContent(c, path) ==
  LET c1 == Do(c, Ev("ServeContent", "", c.w.header["Content-Type"], 0))
      c2 == IF c1.w.header["Content-Type"] = <<>>
            THEN WSet(c1, "Content-Type", SniffType(path))
            ELSE c1
  IN  Write(WriteHeader(c2, 200), AssetBytes)

liveServer_Middleware(c, path, openRes, statRes) ==
  IF ~isClient(path) THEN NextServeHTTP(c, path)
  ELSE LET c1 == Open(c, TrimPrefix(path, <<"/">>), openRes) IN
       IF openRes # NoErr
       THEN IF IsNotExist(openRes)
            THEN HttpError(c1, openRes, 404)
            ELSE HttpError(LogError(c1, "view: open error", openRes), openRes, 500)
       ELSE LET c2 == Stat(c1, statRes) IN
            IF statRes # NoErr
            THEN Close(HttpError(LogError(c2, "view: stat error", statRes), statRes, 500))
            ELSE LET c3 == IF HasPrefix(path, NodeModulesPrefix) \/ HasSuffix(path, SvelteSuffix)
                           THEN WSet(c2, "Content-Type", "application/javascript")
                           ELSE c2
                 IN  Close(ServeContent(c3, path))

staticServer_serveHTTP(c, path, openRes, statRes) ==
  LET c1 == Open(c, path, openRes) IN
  IF openRes # NoErr
  THEN HttpError(LogError(c1, "view: open error", openRes), openRes, 500)
  ELSE LET c2 == Stat(c1, statRes) IN
       IF statRes # NoErr
       THEN HttpError(LogError(c2, "view: stat error", statRes), statRes, 500)
       ELSE LET c3 == IF HasPrefix(path, NodeModulesPrefix)
                      THEN WAdd(c2, "Content-Type", "text/javascript")
                      ELSE c2
            IN  ServeContent(c3, path)

staticServer_Middleware(c, path, openRes, statRes) ==
  IF ~isClient(path) THEN NextServeHTTP(c, path)
  ELSE staticServer_serveHTTP(c, path, openRes, statRes)

----------------------------------------------------------------------------
(* the renderer's collaborators *)

\* props values a caller may pass: a Map, nil, and a value encoding/json rejects
Props == {"Map{name: world}", "nil", "chan int"}

\* json.Marshal(props)
Marshal(props) ==
  CASE props = "Map{name: world}" -> [bytes |-> "{\"name\":\"world\"}", err |-> NoErr]
    [] props = "nil" -> [bytes |-> "null", err |-> NoErr]
    [] OTHER -> [bytes |-> "", err |-> ErrMarshal]

SsrPath == <<"bud", "/", "view", "/", "_ssr", ".js">>

BundleStates == {"v1", "v2", "absent", "unreadable"}

\* the bytes the asset source holds for the bundle
FileContent(fsys) == "<ssr bundle " \o fsys \o ">"

\* variant: the bundle is read once and the copy first evaluated is kept
ReadFileCached(fsys, name) ==
  CASE evalLog # <<>> -> [data |-> evalLog[1], err |-> NoErr]
    [] fsys = "absent" -> [data |-> "", err |-> ErrNotExist]
    [] fsys = "unreadable" -> [data |-> "", err |-> ErrIO]
    [] OTHER -> [data |-> FileContent(fsys), err |-> NoErr]

\* fs.ReadFile(r.fsys, "bud/view/_ssr.js") on the asset source as it is now
ReadFile(fsys, name) ==
  CASE fsys = "absent" -> [data |-> "", err |-> ErrNotExist]
    [] fsys = "unreadable" -> [data |-> "", err |-> ErrIO]
    [] OTHER -> [data |-> FileContent(fsys), err |-> NoErr]

\* characters a route may hold; the bracketed names stand for one character each
BEL == "<U+0007>"

LF == "<U+000A>"

SOH == "<U+0001>"

LSEP == "<U+2028>"

EACUTE == "<U+00E9>"

TAG == "<U+E0001>"

DQ == "\""

BSL == "\\"

\* strconv.Quote's rendering of one character (the verb %q)
QuoteChar(ch) ==
  CASE ch = DQ -> <<BSL, DQ>>
    [] ch = BSL -> <<BSL, BSL>>
    [] ch = BEL -> <<BSL, "a">>
    [] ch = LF -> <<BSL, "n">>
    [] ch = SOH -> <<BSL, "x", "0", "1">>
    [] ch = LSEP -> <<BSL, "u", "2", "0", "2", "8">>
    [] ch = TAG -> <<BSL, "U", "0", "0", "0", "e", "0", "0", "0", "1">>
    [] OTHER -> <<ch>>

RECURSIVE QuoteBody(_)
QuoteBody(str) == IF str = <<>> THEN <<>> ELSE QuoteChar(Head(str)) \o QuoteBody(Tail(str))

Quote(str) == <<DQ>> \o QuoteBody(str) \o <<DQ>>

\* fmt.Sprintf(`%s; bud.render(%q, %s)`, script, route, propBytes)
Sprintf(script, route, propBytes) ==
  <<script, ";", " ", "bud.render", "(">> \o Quote(route) \o <<",", " ", propBytes, ")">>

\* a member of the JSON object the engine returns: absent or present with a value
Absent(zero) == [present |-> FALSE, val |-> zero]

Present(v) == [present |-> TRUE, val |-> v]

RespHeaderKeys == {"Content-Type", "content-type", "Location"}

NoHeaders == [k \in RespHeaderKeys |-> <<>>]

HtmlHeaders == [NoHeaders EXCEPT !["Content-Type"] = <<"text/html">>]

Doc(status, headers, body) ==
  [wellformed |-> TRUE, status |-> status, headers |-> headers, body |-> body]

Malformed == [wellformed |-> FALSE, status |-> Absent(0), headers |-> Absent(NoHeaders),
              body |-> Absent("")]

HelloBody == "<h1>world</h1>"

HelloDoc == Doc(Present(200), Present(HtmlHeaders), Present(HelloBody))

\* what r.vm.Eval may return
EvalResults ==
  { [err |-> ErrEval, text |-> Malformed], [err |-> NoErr, text |-> Malformed],
    [err |-> NoErr, text |-> HelloDoc],
    [err |-> NoErr, text |-> Doc(Present(100), Absent(NoHeaders), Absent(""))],
    [err |-> NoErr, text |-> Doc(Present(404),
        Present([HtmlHeaders EXCEPT !["content-type"] = <<"text/plain">>]), Present("not found"))],
    [err |-> NoErr, text |-> Doc(Present(999),
        Present([HtmlHeaders EXCEPT !["Location"] = <<"/login">>]), Absent(""))] }
  \cup { [err |-> NoErr, text |-> Doc(st, Present(HtmlHeaders), Present(HelloBody))] :
           st \in {Absent(0)} \cup {Present(n) : n \in {-1, 0, 99, 1000}} }

NoEval == [err |-> NoErr, text |-> [Malformed EXCEPT !.wellformed = TRUE]]

\* new(ssr.Response)
ZeroResponse == [Status |-> 0, Headers |-> NoHeaders, Body |-> ""]

\* json.Unmarshal([]byte(result), res): members the object lacks keep their zero value
Unmarshal(text) ==
  IF ~text.wellformed THEN [res |-> ZeroResponse, err |-> ErrSyntax]
  ELSE [res |-> [Status  |-> IF text.status.present THEN text.status.val ELSE ZeroResponse.Status,
                 Headers |-> IF text.headers.present THEN text.headers.val ELSE ZeroResponse.Headers,
                 Body    |-> IF text.body.present THEN text.body.val ELSE ZeroResponse.Body],
        err |-> NoErr]

----------------------------------------------------------------------------
(* renderer.Render and the route handlers *)

\* variant: the lower limit is off by one
InvalidStatusOffByOne(status) == status <= 100 \/ status > 999

\* res.Status < 100 || res.Status > 999
InvalidStatus(status) == status < 100 \/ status > 999

Return(c, res, err) == [c EXCEPT !.ret = [res |-> res, err |-> err]]

\* variant: an Eval error does not end the call, the result is parsed anyway
RenderIgnoresEvalError(c, route, props, fsys, evalOut) ==
  LET m  == Marshal(props)
      c1 == Do(c, Ev("Marshal", m.err.is, <<>>, 0))
  IN  IF m.err # NoErr THEN Return(c1, ZeroResponse, m.err)
      ELSE
  LET s  == ReadFile(fsys, SsrPath)
      c2 == Do(c1, Ev("ReadFile", s.err.is, SsrPath, 0))
  IN  IF s.err # NoErr THEN Return(c2, ZeroResponse, s.err)
      ELSE
  LET expr == Sprintf(s.data, route, m.bytes)
      c3 == Do(c2, Ev("Eval", "_ssr.js", expr, 0))
      u  == Unmarshal(evalOut.text)
      c4 == Do(c3, Ev("Unmarshal", u.err.is, <<>>, 0))
  IN  IF u.err # NoErr THEN Return(c4, ZeroResponse, u.err)
      ELSE
  LET c5 == Do(c4, Ev("Validate", "", <<>>, u.res.Status))
  IN  IF InvalidStatus(u.res.Status)
      THEN Return(c5, ZeroResponse, ErrStatus(u.res.Status))
      ELSE Return(c5, u.res, NoErr)

Render(c, route, props, fsys, evalOut) ==
  LET m  == Marshal(props)
      c1 == Do(c, Ev("Marshal", m.err.is, <<>>, 0))
  IN  IF m.err # NoErr THEN Return(c1, ZeroResponse, m.err)
      ELSE
  LET s  == ReadFile(fsys, SsrPath)
      c2 == Do(c1, Ev("ReadFile", s.err.is, SsrPath, 0))
  IN  IF s.err # NoErr THEN Return(c2, ZeroResponse, s.err)
      ELSE
  LET expr == Sprintf(s.data, route, m.bytes)
      c3 == Do(c2, Ev("Eval", "_ssr.js", expr, 0))
  IN  IF evalOut.err # NoErr THEN Return(c3, ZeroResponse, evalOut.err)
      ELSE
  LET u  == Unmarshal(evalOut.text)
      c4 == Do(c3, Ev("Unmarshal", u.err.is, <<>>, 0))
  IN  IF u.err # NoErr THEN Return(c4, ZeroResponse, u.err)
      ELSE
  LET c5 == Do(c4, Ev("Validate", "", <<>>, u.res.Status))
  IN  IF InvalidStatus(u.res.Status)
      THEN Return(c5, ZeroResponse, ErrStatus(u.res.Status))
      ELSE Return(c5, u.res, NoErr)

\* for key, value := range res.Headers { headers.Set(key, value) }, the keys
\* visited in the order the map iteration happens to give
RECURSIVE SetHeaders(_, _, _)
SetHeaders(c, headers, order) ==
  IF order = <<>> THEN c
  ELSE LET key == Head(order) IN
       SetHeaders(IF headers[key] = <<>> THEN c ELSE WSet(c, key, Head(headers[key])),
                  headers, Tail(order))

\* []byte(res.Body)
Bytes(str) == IF str = "" THEN <<>> ELSE <<str>>

\* variant: the status is written before the headers are set
liveServer_respondStatusFirst(c, path, props, fsys, evalOut, order) ==
  LET r == Render(c, path, props, fsys, evalOut) IN
  IF r.ret.err # NoErr
  THEN HttpError(LogError(r, "view: render error", r.ret.err), r.ret.err, 500)
  ELSE Write(SetHeaders(WriteHeader(r, r.ret.res.Status), r.ret.res.Headers, order),
             Bytes(r.ret.res.Body))

liveServer_respond(c, path, props, fsys, evalOut, order) ==
  LET r == Render(c, path, props, fsys, evalOut) IN
  IF r.ret.err # NoErr
  THEN HttpError(LogError(r, "view: render error", r.ret.err), r.ret.err, 500)
  ELSE Write(WriteHeader(SetHeaders(r, r.ret.res.Headers, order), r.ret.res.Status),
             Bytes(r.ret.res.Body))

staticServer_respond(c, path, props, fsys, evalOut, order) ==
  LET r == Render(c, path, props, fsys, evalOut) IN
  IF r.ret.err # NoErr
  THEN HttpError(LogError(r, "view: client open error", r.ret.err), r.ret.err, 500)
  ELSE Write(WriteHeader(SetHeaders(r, r.ret.res.Headers, order), r.ret.res.Status),
             Bytes(r.ret.res.Body))

----------------------------------------------------------------------------
(* what a handler's calls add up to *)

IsOpened(e) == e.op = "Open" /\ e.key = NoErr.is

IsClosed(e) == e.op = "Close"

IsRead(e) == e.op = "ReadFile"

IsReadOk(e) == e.op = "ReadFile" /\ e.key = NoErr.is

IsEval(e) == e.op = "Eval"

\* handles the handler opened and did not close before it returned
Leaked(c) == Len(SelectSeq(c.ev, IsOpened)) - Len(SelectSeq(c.ev, IsClosed))

\* the bundle sources the handler handed to the engine
Evaluated(c) == SelectSeq(c.ev, IsEval)

RECURSIVE Scripts(_)
Scripts(evs) == IF evs = <<>> THEN <<>> ELSE <<Head(Head(evs).val)>> \o Scripts(Tail(evs))

----------------------------------------------------------------------------
(* requests *)

Routes ==
  { <<"/">>,
    <<"/", "a", DQ, BSL>>,
    <<DQ, ",", "1", ")", ";", "(", DQ>>,
    <<"/", EACUTE, LF, SOH, LSEP>>,
    <<"/", BEL>>,
    <<"/", TAG>> }

\* orders in which the iteration over res.Headers may visit the keys
Orders == { <<"Content-Type", "Location", "content-type">>,
            <<"content-type", "Location", "Content-Type">> }

HelloProps == "Map{name: world}"

\* the route, the props, the engine's answer and the iteration order of one request
HandlerInputs ==
  { [route |-> r, props |-> HelloProps, out |-> [err |-> NoErr, text |-> HelloDoc],
     order |-> <<"Content-Type", "Location", "content-type">>] : r \in Routes }
  \cup { [route |-> <<"/">>, props |-> p, out |-> [err |-> NoErr, text |-> HelloDoc],
          order |-> <<"Content-Type", "Location", "content-type">>] : p \in Props }
  \cup { [route |-> <<"/">>, props |-> HelloProps, out |-> e, order |-> o] :
          e \in EvalResults, o \in Orders }

NoAsset == [open |-> NoErr, stat |-> NoErr]

IsOpen(e) == e.op = "Open"

NoRequest ==
  [kind |-> "none", path |-> <<>>, route |-> <<>>, props |-> "", h0 |-> NoHeader,
   asset |-> NoAsset, evalOut |-> NoEval]

Middleware ==
  /\ served < MaxRequests
  /\ \E path \in Paths, h0 \in InitialHeaders, a \in AssetResults :
       LET c == IF mode = "live"
                THEN liveServer_Middleware(NewCtx(h0), path, a.open, a.stat)
                ELSE staticServer_Middleware(NewCtx(h0), path, a.open, a.stat)
       IN  /\ req' = [NoRequest EXCEPT !.kind = "middleware", !.path = path, !.h0 = h0,
                                       !.asset = IF Len(SelectSeq(c.ev, IsOpen)) = 0 THEN NoAsset ELSE a]
           /\ resp' = c
           /\ openHandles' = openHandles + Leaked(c)
  /\ served' = served + 1
  /\ UNCHANGED <<mode, bundle, calls, reads, passed, evalLog>>

\* the terminal handler returned by Handler(route, props)
Handler ==
  /\ served < MaxRequests
  /\ \E in \in HandlerInputs :
       LET c == IF mode = "live"
                THEN liveServer_respond(NewCtx(NoHeader), in.route, in.props, bundle, in.out, in.order)
                ELSE staticServer_respond(NewCtx(NoHeader), in.route, in.props, bundle, in.out, in.order)
           evaluated == Evaluated(c)
       IN  /\ req' = [NoRequest EXCEPT !.kind = "handler", !.route = in.route, !.props = in.props,
                                       !.evalOut = IF evaluated = <<>> THEN NoEval ELSE in.out]
           /\ resp' = c
           /\ reads' = reads + Len(SelectSeq(c.ev, IsRead))
           /\ passed' = passed + Len(SelectSeq(c.ev, IsReadOk))
           /\ evalLog' = evalLog \o Scripts(evaluated)
  /\ calls' = calls + 1
  /\ served' = served + 1
  /\ UNCHANGED <<mode, bundle, openHandles>>

\* the companion build process, or a deployment, replaces or removes the bundle
ChangeBundle ==
  /\ \E b \in BundleStates \ {bundle} : bundle' = b
  /\ UNCHANGED <<mode, served, openHandles, calls, reads, passed, evalLog, req, resp>>

Init ==
  /\ mode \in {"live", "static"}
  /\ bundle \in BundleStates
  /\ served = 0
  /\ openHandles = 0
  /\ calls = 0
  /\ reads = 0
  /\ passed = 0
  /\ evalLog = <<>>
  /\ req = NoRequest
  /\ resp = NewCtx(NoHeader)

Next == Middleware \/ Handler \/ ChangeBundle

Spec == Init /\ [][Next]_vars

----------------------------------------------------------------------------
(* reading a handler's calls *)

IsLog(e) == e.op = "Log"

IsNext(e) == e.op = "Next"

IsServe(e) == e.op = "ServeContent"

IsWriterCall(e) == e.op \in {"Set", "Add", "WriteHeader", "Write"}

IsWriteHeader(e) == e.op = "WriteHeader"

IsStage(e) == e.op \in {"Marshal", "ReadFile", "Eval", "Unmarshal", "Validate"}

RECURSIVE Ops(_)
Ops(evs) == IF evs = <<>> THEN <<>> ELSE <<Head(evs).op>> \o Ops(Tail(evs))

StageOrder == <<"Marshal", "ReadFile", "Eval", "Unmarshal", "Validate">>

\* the request path starts with one of the two client-asset prefixes
ClientAssetPath(path) ==
  \/ HasPrefix(path, <<"/", "bud", "/", "node_modules", "/">>)
  \/ HasPrefix(path, <<"/", "bud", "/", "view", "/">>)

\* the error an asset retrieval failed with, NoErr when it did not fail
AssetFailure == IF req.asset.open # NoErr THEN req.asset.open ELSE req.asset.stat

\* the body http.Error writes for an error: its text on one line
ErrorBody(err) == <<err.msg, "\n">>

\* the status, headers and body of the JSON object the engine returned
DocStatus == IF req.evalOut.text.status.present THEN req.evalOut.text.status.val ELSE 0

DocHeaders == IF req.evalOut.text.headers.present THEN req.evalOut.text.headers.val ELSE NoHeaders

DocBody == IF req.evalOut.text.body.present THEN req.evalOut.text.body.val ELSE ""

Rendered == req.kind = "handler" /\ Len(SelectSeq(resp.ev, IsEval)) > 0

ParsedObject == Rendered /\ req.evalOut.err = NoErr /\ req.evalOut.text.wellformed

----------------------------------------------------------------------------
(* C1: when the engine result parses as a JSON response object, Render     *)
(* returns an error and no response if the decoded status (0 when missing) *)
(* is below 100 or above 999, and otherwise returns exactly the status,    *)
(* headers and body of the engine result; every response Render returns    *)
(* has 100 <= status <= 999.                                               *)
C1_StatusValidated ==
  /\ ParsedObject =>
       IF DocStatus < 100 \/ DocStatus > 999
       THEN resp.ret.err # NoErr /\ resp.ret.res = ZeroResponse
       ELSE /\ resp.ret.err = NoErr
            /\ resp.ret.res = [Status |-> DocStatus, Headers |-> DocHeaders, Body |-> DocBody]
  /\ (req.kind = "handler" /\ resp.ret.err = NoErr) =>
       (resp.ret.res.Status >= 100 /\ resp.ret.res.Status <= 999)

C1_Witness ==
  /\ ParsedObject
  /\ req.evalOut.text.status = Present(100)
  /\ resp.ret.err = NoErr
  /\ resp.ret.res.Status = 100

(* C2: a failed retrieval of a client asset is answered, in the Live       *)
(* middleware, 404 with the error text when Open fails with a not-exist    *)
(* error and 500 with the error text for any other Open error or any Stat  *)
(* error; in the Static middleware 500 with the error text for every Open  *)
(* or Stat error.  No other failure yields 404.                            *)
C2_FailureStatus ==
  /\ (req.kind = "middleware" /\ ClientAssetPath(req.path) /\ AssetFailure # NoErr) =>
       /\ resp.w.status =
            IF mode = "live" /\ req.asset.open.is = "fs.ErrNotExist" THEN 404 ELSE 500
       /\ resp.w.body = ErrorBody(AssetFailure)
  /\ (req.kind = "handler" /\ resp.ret.err # NoErr) => resp.w.status # 404

C2_Witness ==
  /\ req.kind = "middleware"
  /\ mode = "static"
  /\ req.asset.open = ErrNotExist
  /\ resp.w.status = 500

(* C3: the middleware calls the downstream handler exactly when the path   *)
(* starts with no client-asset prefix; it then calls it once, with the     *)
(* same request and the response writer as received, and does nothing else *)
(* (no asset opened, no header set, no status or body written).            *)
C3_PassThrough ==
  req.kind = "middleware" =>
    /\ (Len(SelectSeq(resp.ev, IsNext)) > 0) <=> ~ClientAssetPath(req.path)
    /\ (Len(SelectSeq(resp.ev, IsNext)) > 0) =>
         /\ resp.ev = <<Ev("Next", "", req.path, 0)>>
         /\ resp.w = [header |-> req.h0, status |-> 0, body |-> <<>>]

C3_Witness ==
  /\ req.kind = "middleware"
  /\ req.path = <<"/", "about", ".svelte">>
  /\ req.h0 # NoHeader
  /\ Len(SelectSeq(resp.ev, IsNext)) = 1

(* C4: every asset handle a middleware request opens is closed before its  *)
(* handler returns, so whenever no request is in flight no asset handle is *)
(* open.                                                                   *)
C4_HandlesClosed ==
  /\ req.kind = "middleware" => Len(SelectSeq(resp.ev, IsOpened)) = Len(SelectSeq(resp.ev, IsClosed))
  /\ openHandles = 0

----------------------------------------------------------------------------
\* the calls a terminal handler made on the response writer, in order
WriterCalls == SelectSeq(resp.ev, IsWriterCall)

\* the keys of the response's headers
ResponseKeys == {k \in RespHeaderKeys : resp.ret.res.Headers[k] # <<>>}

(* C5: the terminal handler writes nothing before the outcome of Render is *)
(* known; if Render fails it writes 500 with the error text and no header  *)
(* of a render response; if Render succeeds it sets every header of the    *)
(* response (the last write to a key wins), then writes the status, then   *)
(* the body.                                                               *)
C5_WriteOrder ==
  req.kind = "handler" =>
    /\ \A i, j \in 1..Len(resp.ev) :
         (IsWriterCall(resp.ev[i]) /\ IsStage(resp.ev[j])) => j < i
    /\ resp.ret.err # NoErr =>
         /\ WriterCalls = << Ev("Set", "Content-Type", <<"text/plain; charset=utf-8">>, 0),
                             Ev("Set", "X-Content-Type-Options", <<"nosniff">>, 0),
                             Ev("WriteHeader", "", <<>>, 500),
                             Ev("Write", "", ErrorBody(resp.ret.err), 0) >>
         /\ resp.w.status = 500
         /\ resp.w.body = ErrorBody(resp.ret.err)
    /\ resp.ret.err = NoErr =>
         LET n == Cardinality(ResponseKeys) IN
         /\ Len(WriterCalls) = n + 2
         /\ \A k \in ResponseKeys : \E i \in 1..n :
              WriterCalls[i] = Ev("Set", k, resp.ret.res.Headers[k], 0)
         /\ WriterCalls[n + 1] = Ev("WriteHeader", "", <<>>, resp.ret.res.Status)
         /\ WriterCalls[n + 2] = Ev("Write", "", Bytes(resp.ret.res.Body), 0)
         /\ \A h \in HeaderKeys :
              LET sets == {i \in 1..n : Canon(WriterCalls[i].key) = h} IN
              resp.w.header[h] =
                IF sets = {} THEN <<>>
                ELSE WriterCalls[CHOOSE i \in sets : \A j \in sets : j <= i].val
         /\ resp.w.status = resp.ret.res.Status
         /\ resp.w.body = Bytes(resp.ret.res.Body)

C5_Witness ==
  /\ req.kind = "handler"
  /\ resp.ret.err = NoErr
  /\ Cardinality(ResponseKeys) = 2
  /\ resp.w.header["Content-Type"] = <<"text/plain">>
  /\ resp.w.status = 404

----------------------------------------------------------------------------
\* the Content-Type values of the response handed to http.ServeContent
Handed == SelectSeq(resp.ev, IsServe)[1].val

SetsContentType(e) == e.op \in {"Set", "Add"} /\ Canon(e.key) = "Content-Type"

(* C6: for a client asset opened and stat'ed successfully, the response    *)
(* handed to the content-serving primitive has Content-Type exactly        *)
(* application/javascript in the Live middleware when the path starts with *)
(* /bud/node_modules/ or ends with .svelte, exactly text/javascript in the *)
(* Static middleware when the path starts with /bud/node_modules/, and     *)
(* for every other path the middleware sets no Content-Type; the forced    *)
(* value is the Content-Type of the response whatever it carried before.   *)
C6_ContentTypeForced ==
  (req.kind = "middleware" /\ Len(SelectSeq(resp.ev, IsServe)) > 0) =>
    LET nodeModule == HasPrefix(req.path, <<"/", "bud", "/", "node_modules", "/">>)
        svelte == HasSuffix(req.path, <<".svelte">>)
    IN  CASE mode = "live" /\ (nodeModule \/ svelte) -> Handed = <<"application/javascript">>
          [] mode = "static" /\ nodeModule -> Handed = <<"text/javascript">>
          [] OTHER -> /\ Handed = req.h0["Content-Type"]
                      /\ \A i \in 1..Len(resp.ev) :
                           SetsContentType(resp.ev[i]) =>
                             \E j \in 1..(i - 1) : IsServe(resp.ev[j])

----------------------------------------------------------------------------
(* how the script engine reads the invocation *)

\* the character a \xHH escape denotes
HexChar(digits) == IF digits = <<"0", "1">> THEN SOH ELSE "<?>"

\* the character a \uHHHH escape denotes
UnicodeChar(digits) == IF digits = <<"2", "0", "2", "8">> THEN LSEP ELSE "<?>"

NoString == [ok |-> FALSE, str |-> <<>>, next |-> 0]

\* the string value of the literal whose opening quote precedes toks[i]
RECURSIVE StringLiteral(_, _, _)
StringLiteral(toks, i, acc) ==
  IF i > Len(toks) THEN NoString
  ELSE LET t == toks[i] IN
    CASE t = DQ -> [ok |-> TRUE, str |-> acc, next |-> i + 1]
      [] t = LF -> NoString
      [] t = BSL ->
           IF i + 1 > Len(toks) THEN NoString
           ELSE LET e == toks[i + 1] IN
             CASE e = "n" -> StringLiteral(toks, i + 2, Append(acc, LF))
               [] e = "x" -> IF i + 3 > Len(toks) THEN NoString
                             ELSE StringLiteral(toks, i + 4,
                                    Append(acc, HexChar(SubSeq(toks, i + 2, i + 3))))
               [] e = "u" -> IF i + 5 > Len(toks) THEN NoString
                             ELSE StringLiteral(toks, i + 6,
                                    Append(acc, UnicodeChar(SubSeq(toks, i + 2, i + 5))))
               [] OTHER -> StringLiteral(toks, i + 2, Append(acc, e))
      [] OTHER -> StringLiteral(toks, i + 1, Append(acc, t))

\* the evaluation unit read as `<script>; bud.render(<string literal>, <props>)`
Invocation(expr) ==
  IF Len(expr) < 6 \/ SubSeq(expr, 2, 5) # <<";", " ", "bud.render", "(">> \/ expr[6] # DQ
  THEN [ok |-> FALSE, script |-> "", route |-> <<>>, props |-> ""]
  ELSE LET lit == StringLiteral(expr, 7, <<>>) IN
       IF lit.ok /\ Len(expr) = lit.next + 3
                 /\ expr[lit.next] = "," /\ expr[lit.next + 1] = " "
                 /\ expr[lit.next + 3] = ")"
       THEN [ok |-> TRUE, script |-> expr[1], route |-> lit.str, props |-> expr[lit.next + 2]]
       ELSE [ok |-> FALSE, script |-> expr[1], route |-> <<>>, props |-> ""]

\* the evaluation unit the handler passed to the engine
Expr == SelectSeq(resp.ev, IsEval)[1].val

(* C7: for every route the evaluation unit is the bundle, then bud.render  *)
(* called with two arguments: a single string literal that the engine      *)
(* decodes back to exactly the route, and the props JSON as serialized.    *)
C7_RouteRoundTrip ==
  Rendered =>
    /\ Invocation(Expr).ok
    /\ Invocation(Expr).route = req.route
    /\ Invocation(Expr).props = Marshal(req.props).bytes

----------------------------------------------------------------------------
\* the stages a Render call went through, in order
Stages == Ops(SelectSeq(resp.ev, IsStage))

StageEvent(op) == resp.ev[CHOOSE i \in 1..Len(resp.ev) : resp.ev[i].op = op]

(* C8: a Render call runs serialize, read bundle, Eval, parse, validate in *)
(* this order, each at most once; a failing stage ends the call with its   *)
(* error and no later stage runs; nothing is retried, so a request invokes *)
(* Eval at most once and reports at most one error.                        *)
C8_StagesInOrder ==
  req.kind = "handler" =>
    /\ \E n \in 1..5 : Stages = SubSeq(StageOrder, 1, n)
    /\ Marshal(req.props).err # NoErr =>
         (Stages = SubSeq(StageOrder, 1, 1) /\ resp.ret.err = Marshal(req.props).err)
    /\ Len(Stages) >= 2 =>
         /\ StageEvent("ReadFile").val = <<"bud", "/", "view", "/", "_ssr", ".js">>
         /\ StageEvent("ReadFile").key # NoErr.is =>
              (Len(Stages) = 2 /\ resp.ret.err.is = StageEvent("ReadFile").key)
    /\ (Len(Stages) >= 3 /\ req.evalOut.err # NoErr) =>
         (Len(Stages) = 3 /\ resp.ret.err = req.evalOut.err)
    /\ (Len(Stages) >= 4 /\ StageEvent("Unmarshal").key # NoErr.is) =>
         (Len(Stages) = 4 /\ resp.ret.err.is = StageEvent("Unmarshal").key)
    /\ resp.ret.err = NoErr => Len(Stages) = 5
    /\ Len(SelectSeq(resp.ev, IsEval)) <= 1
    /\ Len(SelectSeq(resp.ev, IsLog)) = (IF resp.ret.err # NoErr THEN 1 ELSE 0)
    /\ Len(SelectSeq(resp.ev, IsWriteHeader)) = 1

C8_Witness ==
  /\ req.kind = "handler"
  /\ Stages = <<"Marshal", "ReadFile">>
  /\ resp.ret.err = ErrNotExist
  /\ resp.w.status = 500

----------------------------------------------------------------------------
(* C9: nothing is carried over between Render calls: a call that gets past *)
(* serialization and the bundle read reads the bundle once and invokes the *)
(* engine once, evaluates the bundle the asset source holds at that time   *)
(* and returns the result of its own Eval; after N calls that all got that *)
(* far the bundle has been read N times and the engine invoked N times.    *)
C9_NoCarryOver ==
  /\ [][ (calls' = calls + 1 /\ passed' = passed + 1) =>
           /\ reads' = reads + 1
           /\ evalLog' = Append(evalLog, FileContent(bundle))
           /\ SelectSeq(resp'.ev, IsEval)[1].val[1] = FileContent(bundle)
           /\ resp'.ret.err = NoErr =>
                resp'.ret.res = [Status  |-> IF req'.evalOut.text.status.present
                                             THEN req'.evalOut.text.status.val ELSE 0,
                                 Headers |-> IF req'.evalOut.text.headers.present
                                             THEN req'.evalOut.text.headers.val ELSE NoHeaders,
                                 Body    |-> IF req'.evalOut.text.body.present
                                             THEN req'.evalOut.text.body.val ELSE ""] ]_vars
  /\ [](passed = calls => (reads = calls /\ Len(evalLog) = calls))
  /\ [](Len(evalLog) = passed)

C9_Witness ==
  /\ calls = 2
  /\ passed = 2
  /\ reads = 2
  /\ evalLog = <<FileContent("v1"), FileContent("v2")>>
  /\ req.kind = "handler"
  /\ resp.ret.res.Status = 999

----------------------------------------------------------------------------
\* the request ended in an error response
Failed ==
  \/ req.kind = "middleware" /\ AssetFailure # NoErr
  \/ req.kind = "handler" /\ resp.ret.err # NoErr

FailedWith == IF req.kind = "handler" THEN resp.ret.err ELSE AssetFailure

LoggedError == \E i \in 1..Len(resp.ev) : IsLog(resp.ev[i]) /\ resp.ev[i].val = <<FailedWith.msg>>

(* C10: every request that ends in an error response emits a log entry     *)
(* carrying the error's message, for every failure class in either         *)
(* variant, a Live asset Open failure with not-found included.             *)
C10_EveryErrorLogged == Failed => LoggedError

LiveNotFound ==
  /\ mode = "live"
  /\ req.kind = "middleware"
  /\ req.asset.open.is = "fs.ErrNotExist"

(* C10, amended: every request that ends in an error response emits a log  *)
(* entry carrying the error's message, except a Live asset Open that fails *)
(* with a not-exist error, which is answered 404 and logs nothing.         *)
C10_ErrorsLoggedExceptLiveNotFound ==
  /\ (Failed /\ ~LiveNotFound) => LoggedError
  /\ (Failed /\ LiveNotFound) => (Len(SelectSeq(resp.ev, IsLog)) = 0 /\ resp.w.status = 404)

C10_Witness ==
  /\ mode = "static"
  /\ req.kind = "middleware"
  /\ req.asset.open.is = "fs.ErrNotExist"
  /\ LoggedError

====
